---- MODULE Spec2Model ----
(***************************************************************************)
(* The subscription verification handler of src/index.ts: one HTTP         *)
(* handler that verifies a payment with the gateway, looks up the pending  *)
(* subscription, resolves or provisions the user and writes four records.  *)
(* Every await of the handler is one step of an invocation; invocations    *)
(* share the datastore (subscriptions, profiles, transactions,             *)
(* notifications) and the account service.                                 *)
(***************************************************************************)
EXTENDS Integers, Sequences, FiniteSets, TLC

\* ------------------------------------------------------------- bounds
\* Invocations the serving runtime starts in one behaviour.
MaxRuns == 2

\* ------------------------------------------------------------- values
\* JavaScript null / undefined (both falsy, both dropped by ?. and ||).
NULL == "null"
\* A user_id column that holds no user: subscription.user_id is null.
NoUser == 0
\* The account that exists before any invocation.
ExistingUser == 1

\* The handler instances the runtime may run at the same time.
Procs == {"h1", "h2"}

\* Variant: only the empty string counts as absent (=== '' instead of !value).
FalsyEmptyOnly(v) == v = ""

\* Truthiness of a string-or-null value: !txRef, meta.plan_type || ..., !userId.
Falsy(v) == v \in {NULL, ""}

Methods == {"OPTIONS", "GET", "POST"}
\* tx_ref values: absent, empty, one row, two rows, no row.
TxRefs == {NULL, "", "ref1", "refdup", "refnone"}
TransactionIds == {NULL, "tx1"}

\* ------------------------------------------------------------- records
\* paymentData.meta: absent as a whole, or an object whose members may be absent.
NoMeta == [present |-> FALSE, plan_type |-> NULL, is_trial |-> "undefined",
           pending_user_data |-> NULL]

Metas(plans, trials, pendings) ==
  {NoMeta} \cup
  [present : {TRUE}, plan_type : plans, is_trial : trials, pending_user_data : pendings]

\* meta?.field
MetaGet(meta, field) == IF meta.present THEN meta[field] ELSE
                        IF field = "is_trial" THEN "undefined" ELSE NULL

\* verificationResult.data of a gateway answer (customer, amount, currency and
\* payment_type are copied to the transaction row unchanged).
NoData == [present |-> FALSE, status |-> NULL, id |-> NULL, meta |-> NoMeta,
           email |-> NULL, name |-> NULL, amount |-> NULL, currency |-> NULL,
           payment_type |-> NULL]

PaymentDatas(metas) ==
  [present : {TRUE}, status : {"successful", "failed"}, id : {"7"}, meta : metas,
   email : {"ada@example.com"}, name : {"Ada"}, amount : {"1000"},
   currency : {"NGN"}, payment_type : {"card"}]

\* The gateway's answers: an error carries no data, a success carries the payment.
GatewayAnswers(metas) ==
  {[status |-> "error", data |-> NoData]} \cup
  [status : {"success"}, data : PaymentDatas(metas)]

NoSubscription == [id |-> "none", flutterwave_tx_ref |-> NULL, user_id |-> NoUser,
                   plan_type |-> NULL, status |-> "none",
                   flutterwave_subscription_id |-> NULL]

NoRequest == [method |-> "none", tx_ref |-> NULL, transaction_id |-> NULL]

NoResponse == [status |-> 0, body |-> "none", contentType |-> "none", cors |-> FALSE,
               error |-> NULL, details |-> NULL, success |-> FALSE,
               subscription_id |-> NULL, user_id |-> NoUser, plan_type |-> NULL,
               is_trial |-> FALSE]

\* ------------------------------------------------------------- pure helpers
\* Variant: only the overall status is tested; data.status is ignored.
VerificationFailedStatusOnly(vr) == vr.status # "success"

\* Line 53: the payment is rejected unless both statuses report success
\* (|| short-circuits, so data is read only when the first test passes).
VerificationFailed(vr) == vr.status # "success" \/ vr.data.status # "successful"

\* Variant: the first matching row is taken when several match (limit(1) instead
\* of single()).
SingleFirstMatch(rows, txRef, queryFails) ==
  LET matches == {s \in DOMAIN rows : rows[s].flutterwave_tx_ref = txRef}
  IN  IF queryFails \/ matches = {}
      THEN [data |-> NoSubscription, error |-> TRUE]
      ELSE [data |-> rows[CHOOSE s \in matches : TRUE], error |-> FALSE]

\* Lines 60-64: .select('*').eq('flutterwave_tx_ref', txRef).single(): the row when
\* exactly one matches, an error when none or several do or when the query fails.
Single(rows, txRef, queryFails) ==
  LET matches == {s \in DOMAIN rows : rows[s].flutterwave_tx_ref = txRef}
  IN  IF queryFails \/ Cardinality(matches) # 1
      THEN [data |-> NoSubscription, error |-> TRUE]
      ELSE [data |-> rows[CHOOSE s \in matches : TRUE], error |-> FALSE]

\* Line 66: subscriptionError || !subscription
SubscriptionMissing(res) == res.error \/ res.data = NoSubscription

\* Variant: the subscription's plan type is used whatever the metadata names.
PlanTypeOfSubscription(pd, sub) == sub.plan_type

\* Line 76: paymentData.meta?.plan_type || subscription.plan_type
PlanTypeOf(pd, sub) ==
  IF Falsy(MetaGet(pd.meta, "plan_type")) THEN sub.plan_type
  ELSE MetaGet(pd.meta, "plan_type")

\* Line 77: paymentData.meta?.is_trial === true
IsTrial(pd) == MetaGet(pd.meta, "is_trial") = "true"

\* Lines 221-225: the fee table, in hundredths (0.05 is 5).
feeRates == [starter |-> 5, professional |-> 3, enterprise |-> 1]

\* Names every JavaScript object inherits: feeRates[name] is a function for them.
InheritedNames == {"constructor", "toString", "valueOf", "hasOwnProperty"}

\* What feeRates[name] || 0.05 yields for an inherited name: a function, no rate.
NotARate == -1

\* Lines 220-228: feeRates[planType] || 0.05
getPlanFeeRate(planType) ==
  IF planType \in DOMAIN feeRates THEN feeRates[planType]
  ELSE IF planType \in InheritedNames THEN NotARate
  ELSE 5

\* Line 136: isTrial ? 'trial' : 'active'
ProfileStatus(isTrial) == IF isTrial THEN "trial" ELSE "active"

\* Lines 174-176: the notification message, by its wording.
NotificationMessage(isTrial) == IF isTrial THEN "trial started, 7 days" ELSE "now active"

\* ------------------------------------------------------------- responses
\* Line 16: new Response(null, { headers: corsHeaders })
PreflightResponse ==
  [NoResponse EXCEPT !.status = 200, !.body = "null", !.cors = TRUE]

\* Lines 20-23: a text body; the Response constructor types a string body text/plain.
MethodNotAllowedResponse ==
  [NoResponse EXCEPT !.status = 405, !.body = "Method not allowed",
                     !.contentType = "text/plain", !.cors = TRUE]

\* Variant: the catch block forgets the CORS headers.
ErrorResponseNoCors(details) ==
  [NoResponse EXCEPT !.status = 500, !.body = "json",
                     !.contentType = "application/json",
                     !.error = "Subscription verification failed",
                     !.details = details]

\* Lines 205-217: the catch block.
ErrorResponse(details) ==
  [NoResponse EXCEPT !.status = 500, !.body = "json",
                     !.contentType = "application/json", !.cors = TRUE,
                     !.error = "Subscription verification failed",
                     !.details = details]

\* Lines 191-203.
SuccessResponse(subscriptionId, user, planType, isTrial) ==
  [NoResponse EXCEPT !.status = 200, !.body = "json",
                     !.contentType = "application/json", !.cors = TRUE,
                     !.success = TRUE, !.subscription_id = subscriptionId,
                     !.user_id = user, !.plan_type = planType, !.is_trial = isTrial]

\* ------------------------------------------------------------- state
VARIABLES
  subscriptions,   \* table subscriptions: id -> row
  accounts,        \* the account service: ids of the accounts that exist
  profiles,        \* table profiles: user id -> row
  transactions,    \* table transactions, in insertion order
  notifications,   \* table notifications, in insertion order
  runs,            \* invocations started so far
  pc,              \* where each handler instance stands (which await it is at)
  run,             \* the number of the invocation an instance is serving
  request,         \* req: method and query parameters
  verificationResult, \* const verificationResult (the gateway's answer)
  lookup,          \* { data: subscription, error: subscriptionError }
  userId,          \* let userId
  errors,          \* authError, updateSubscriptionError, updateProfileError,
                   \* transactionError, notificationError
  calls,           \* the outbound calls the invocation has made, in order
  response         \* the Response the invocation returns

vars == <<subscriptions, accounts, profiles, transactions, notifications, runs,
          pc, run, request, verificationResult, lookup, userId, errors, calls,
          response>>

\* const paymentData = verificationResult.data (line 57)
paymentData(p) == verificationResult[p].data

\* const { data: subscription } (line 60)
subscription(p) == lookup[p].data

store == <<subscriptions, accounts, profiles, transactions, notifications>>

NoErrors == [auth |-> FALSE, subscription |-> FALSE, profile |-> FALSE,
             transaction |-> FALSE, notification |-> FALSE]

\* No answer yet, or the fetch threw.
NoAnswer == [status |-> "none", data |-> NoData]

NoLookup == [data |-> NoSubscription, error |-> FALSE]

NoProfile == [plan_type |-> NULL, subscription_status |-> NULL]

\* The subscription rows checkout left behind: one for ref1, two for refdup.
PendingRow(id, txRef, user, plan) ==
  [id |-> id, flutterwave_tx_ref |-> txRef, user_id |-> user, plan_type |-> plan,
   status |-> "pending", flutterwave_subscription_id |-> NULL]

InitWith(plans) ==
  /\ \E user \in {NoUser, ExistingUser}, plan \in plans :
       subscriptions = [s \in {"sub1", "sub2", "sub3"} |->
                          IF s = "sub1" THEN PendingRow(s, "ref1", user, plan)
                          ELSE PendingRow(s, "refdup", ExistingUser, "starter")]
  /\ accounts = {ExistingUser}
  /\ profiles = [u \in {ExistingUser} |-> NoProfile]
  /\ transactions = <<>>
  /\ notifications = <<>>
  /\ runs = 0
  /\ pc = [p \in Procs |-> "idle"]
  /\ run = [p \in Procs |-> 0]
  /\ request = [p \in Procs |-> NoRequest]
  /\ verificationResult = [p \in Procs |-> NoAnswer]
  /\ lookup = [p \in Procs |-> NoLookup]
  /\ userId = [p \in Procs |-> NoUser]
  /\ errors = [p \in Procs |-> NoErrors]
  /\ calls = [p \in Procs |-> <<>>]
  /\ response = [p \in Procs |-> NoResponse]

\* The invocation ends with response r (a return, or a throw caught at line 205).
Respond(p, r) ==
  /\ response' = [response EXCEPT ![p] = r]
  /\ pc' = [pc EXCEPT ![p] = "done"]

Goto(p, label) ==
  /\ pc' = [pc EXCEPT ![p] = label]
  /\ UNCHANGED response

Called(p, name) == calls' = [calls EXCEPT ![p] = Append(@, name)]

\* Lines 13-48: the request gate, the query parameters, and the fetch being issued.
Receive(p, requests) ==
  /\ pc[p] = "idle"
  /\ runs < MaxRuns
  /\ runs' = runs + 1
  /\ run' = [run EXCEPT ![p] = runs + 1]
  /\ \E req \in requests :
       /\ request' = [request EXCEPT ![p] = req]
       /\ IF req.method = "OPTIONS" THEN Respond(p, PreflightResponse)
          ELSE IF req.method # "GET" THEN Respond(p, MethodNotAllowedResponse)
          ELSE IF Falsy(req.tx_ref)
          THEN Respond(p, ErrorResponse("Missing transaction reference"))
          ELSE Goto(p, "verify")
  /\ UNCHANGED <<store, verificationResult, lookup, userId, errors, calls>>

\* Lines 42-57: the gateway's answer arrives (or the fetch throws) and is checked;
\* the subscription select is issued.
VerifyPayment(p, answers) ==
  /\ pc[p] = "verify"
  /\ Called(p, "gateway.verify")
  /\ \/ /\ Respond(p, ErrorResponse("fetch failed"))
        /\ UNCHANGED verificationResult
     \/ \E vr \in answers :
          /\ verificationResult' = [verificationResult EXCEPT ![p] = vr]
          /\ IF VerificationFailed(vr)
             THEN Respond(p, ErrorResponse("Payment verification failed"))
             ELSE Goto(p, "lookup")
  /\ UNCHANGED <<store, runs, run, request, lookup, userId, errors>>

\* Variant: an account is provisioned whenever the payload is present, also when
\* the subscription already has a user.
ResolveUserAlwaysProvisions(p, sub) ==
  IF MetaGet(paymentData(p).meta, "pending_user_data") # NULL
  THEN /\ Goto(p, "create_user")
       /\ UNCHANGED userId
  ELSE IF sub.user_id # NoUser
  THEN /\ userId' = [userId EXCEPT ![p] = sub.user_id]
       /\ Goto(p, "update_subscription")
  ELSE /\ Respond(p, ErrorResponse("No user data found"))
       /\ UNCHANGED userId

\* Variant: a missing payload is not an error; the handler goes on without user.
ResolveUserWithoutPayload(p, sub) ==
  IF sub.user_id # NoUser
  THEN /\ userId' = [userId EXCEPT ![p] = sub.user_id]
       /\ Goto(p, "update_subscription")
  ELSE IF MetaGet(paymentData(p).meta, "pending_user_data") # NULL
  THEN /\ Goto(p, "create_user")
       /\ UNCHANGED userId
  ELSE /\ Goto(p, "update_subscription")
       /\ UNCHANGED userId

\* Lines 80-113, up to the next await: the subscription's user is reused, or the
\* pending-account payload is required.
ResolveUser(p, sub) ==
  IF sub.user_id # NoUser
  THEN /\ userId' = [userId EXCEPT ![p] = sub.user_id]
       /\ Goto(p, "update_subscription")
  ELSE IF MetaGet(paymentData(p).meta, "pending_user_data") # NULL
  THEN /\ Goto(p, "create_user")
       /\ UNCHANGED userId
  ELSE /\ Respond(p, ErrorResponse("No user data found"))
       /\ UNCHANGED userId

\* Lines 60-86: the select answers; the row is kept and the user resolved.
LookupSubscription(p) ==
  /\ pc[p] = "lookup"
  /\ Called(p, "subscriptions.select")
  /\ \E queryFails \in BOOLEAN :
       LET res == Single(subscriptions, request[p].tx_ref, queryFails)
       IN  /\ lookup' = [lookup EXCEPT ![p] = res]
           /\ IF SubscriptionMissing(res)
              THEN /\ Respond(p, ErrorResponse("Subscription not found"))
                   /\ UNCHANGED userId
              ELSE ResolveUser(p, res.data)
  /\ UNCHANGED <<store, runs, run, request, verificationResult, errors>>

\* Lines 87-109: auth.admin.createUser answers. The new account gets the next id
\* and its profile row.
CreateUser(p) ==
  /\ pc[p] = "create_user"
  /\ Called(p, "auth.createUser")
  /\ \E authError \in BOOLEAN :
       /\ errors' = [errors EXCEPT ![p].auth = authError]
       /\ IF authError
          THEN /\ Respond(p, ErrorResponse("Failed to create user account"))
               /\ UNCHANGED <<accounts, profiles, userId>>
          ELSE LET id == Cardinality(accounts) + 1
               IN  /\ accounts' = accounts \cup {id}
                   /\ profiles' = [u \in accounts \cup {id} |->
                                     IF u = id THEN NoProfile ELSE profiles[u]]
                   /\ userId' = [userId EXCEPT ![p] = id]
                   /\ Goto(p, "update_subscription")
  /\ UNCHANGED <<subscriptions, transactions, notifications, runs, run, request,
                 verificationResult, lookup>>

\* Lines 116-124: the row the update writes over the one matched by id.
ActivatedRow(row, user, pd) ==
  [row EXCEPT !.user_id = user, !.status = "active",
              !.flutterwave_subscription_id = pd.id]

\* Variant: a failed subscription update is only logged.
UpdateIsNeverFatal(updateSubscriptionError) == FALSE

\* Lines 126-129: a failed subscription update throws.
UpdateIsFatal(updateSubscriptionError) == updateSubscriptionError

\* Lines 116-129: the subscription update answers; its failure is fatal.
UpdateSubscription(p) ==
  /\ pc[p] = "update_subscription"
  /\ Called(p, "subscriptions.update")
  /\ \E updateSubscriptionError \in BOOLEAN :
       /\ errors' = [errors EXCEPT ![p].subscription = updateSubscriptionError]
       /\ IF UpdateIsFatal(updateSubscriptionError)
          THEN /\ Respond(p, ErrorResponse("Failed to update subscription"))
               /\ UNCHANGED subscriptions
          ELSE /\ subscriptions' =
                    IF updateSubscriptionError THEN subscriptions
                    ELSE [s \in DOMAIN subscriptions |->
                            IF subscriptions[s].id = subscription(p).id
                            THEN ActivatedRow(subscriptions[s], userId[p],
                                              paymentData(p))
                            ELSE subscriptions[s]]
               /\ Goto(p, "update_profile")
  /\ UNCHANGED <<accounts, profiles, transactions, notifications, runs, run, request,
                 verificationResult, lookup, userId>>

\* Variant: a failed best-effort write ends the invocation.
AfterBestEffortAborts(failed, next) == IF failed THEN "done" ELSE next

\* Where the handler goes after a best-effort write, failed or not (lines 141-144,
\* 162-165): the error is logged and the next write follows.
AfterBestEffort(failed, next) == next

\* Lines 132-144: the profile update answers.
UpdateProfile(p) ==
  /\ pc[p] = "update_profile"
  /\ Called(p, "profiles.update")
  /\ \E updateProfileError \in BOOLEAN :
       /\ errors' = [errors EXCEPT ![p].profile = updateProfileError]
       /\ profiles' =
            IF updateProfileError THEN profiles
            ELSE [u \in DOMAIN profiles |->
                    IF u = userId[p]
                    THEN [plan_type |-> PlanTypeOf(paymentData(p), subscription(p)),
                          subscription_status |-> ProfileStatus(IsTrial(paymentData(p)))]
                    ELSE profiles[u]]
       /\ Goto(p, AfterBestEffort(updateProfileError, "insert_transaction"))
  /\ UNCHANGED <<subscriptions, accounts, transactions, notifications, runs, run,
                 request, verificationResult, lookup, userId>>

\* Lines 149-160: the row the insert adds (run: the invocation that wrote it).
TransactionRow(p) ==
  [user_id |-> userId[p], flutterwave_tx_ref |-> request[p].tx_ref,
   flutterwave_tx_id |-> paymentData(p).id, amount |-> paymentData(p).amount,
   currency |-> paymentData(p).currency, status |-> "completed",
   customer_email |-> paymentData(p).email, customer_name |-> paymentData(p).name,
   payment_method |-> paymentData(p).payment_type,
   plan_fee_rate |-> getPlanFeeRate(PlanTypeOf(paymentData(p), subscription(p))),
   run |-> run[p]]

\* Variant: the insert is skipped when a row with the same tx_ref is stored.
InsertedTransactionOnce(rows, row) ==
  IF \E i \in DOMAIN rows : rows[i].flutterwave_tx_ref = row.flutterwave_tx_ref
  THEN rows
  ELSE Append(rows, row)

\* Lines 147-160: the table after the insert; nothing is looked up before it.
InsertedTransaction(rows, row) == Append(rows, row)

\* Lines 147-165: the transaction insert answers.
InsertTransaction(p) ==
  /\ pc[p] = "insert_transaction"
  /\ Called(p, "transactions.insert")
  /\ \E transactionError \in BOOLEAN :
       /\ errors' = [errors EXCEPT ![p].transaction = transactionError]
       /\ transactions' = IF transactionError THEN transactions
                          ELSE InsertedTransaction(transactions, TransactionRow(p))
       /\ Goto(p, AfterBestEffort(transactionError, "insert_notification"))
  /\ UNCHANGED <<subscriptions, accounts, profiles, notifications, runs, run,
                 request, verificationResult, lookup, userId>>

\* Lines 170-182: the row the insert adds.
NotificationRow(p) ==
  [user_id |-> userId[p], type |-> "payment", title |-> "Subscription Activated",
   message |-> NotificationMessage(IsTrial(paymentData(p))),
   plan_type |-> PlanTypeOf(paymentData(p), subscription(p)),
   subscription_id |-> subscription(p).id, is_trial |-> IsTrial(paymentData(p)),
   run |-> run[p]]

\* Lines 168-203: the notification insert answers and the success response is built.
InsertNotification(p) ==
  /\ pc[p] = "insert_notification"
  /\ Called(p, "notifications.insert")
  /\ \E notificationError \in BOOLEAN :
       /\ errors' = [errors EXCEPT ![p].notification = notificationError]
       /\ notifications' = IF notificationError THEN notifications
                           ELSE Append(notifications, NotificationRow(p))
  /\ Respond(p, SuccessResponse(subscription(p).id, userId[p],
                                PlanTypeOf(paymentData(p), subscription(p)),
                                IsTrial(paymentData(p))))
  /\ UNCHANGED <<subscriptions, accounts, profiles, transactions, runs, run,
                 request, verificationResult, lookup, userId>>

\* The response is sent and the invocation's locals go out of scope.
Return(p) ==
  /\ pc[p] = "done"
  /\ pc' = [pc EXCEPT ![p] = "idle"]
  /\ request' = [request EXCEPT ![p] = NoRequest]
  /\ verificationResult' = [verificationResult EXCEPT ![p] = NoAnswer]
  /\ lookup' = [lookup EXCEPT ![p] = NoLookup]
  /\ userId' = [userId EXCEPT ![p] = NoUser]
  /\ errors' = [errors EXCEPT ![p] = NoErrors]
  /\ calls' = [calls EXCEPT ![p] = <<>>]
  /\ response' = [response EXCEPT ![p] = NoResponse]
  /\ UNCHANGED <<store, runs, run>>

\* One step of instance p, the requests and gateway answers drawn from the given sets.
Step(p, requests, answers) ==
  \/ Receive(p, requests)
  \/ VerifyPayment(p, answers)
  \/ LookupSubscription(p)
  \/ CreateUser(p)
  \/ UpdateSubscription(p)
  \/ UpdateProfile(p)
  \/ InsertTransaction(p)
  \/ InsertNotification(p)
  \/ Return(p)

\* ------------------------------------------------------------- one invocation at a time
\* Every request shape and every payment metadata shape, served by one instance.
Answers ==
  GatewayAnswers(Metas({NULL, "", "enterprise"}, {"true", "false"}, {NULL, "pending1"}))

Init == InitWith({"starter", "professional", "gold", "constructor"})

Requests == [method : Methods, tx_ref : TxRefs, transaction_id : TransactionIds]

Next == Step("h1", Requests, Answers)

Spec == Init /\ [][Next]_vars

\* ------------------------------------------------------------- interleaved invocations
\* Two instances serve callbacks for the same reference at the same time.
RaceAnswers == GatewayAnswers(Metas({NULL}, {"true"}, {"pending1"}))

RaceRequests == [method : {"GET"}, tx_ref : {"ref1"}, transaction_id : {"tx1"}]

InitRace == InitWith({"professional"})

NextRace == \E p \in Procs : Step(p, RaceRequests, RaceAnswers)

SpecRace == InitRace /\ [][NextRace]_vars

\* ------------------------------------------------------------- properties
Done(p) == pc[p] = "done"

\* The rows of a table that invocation number r inserted.
RowsOf(table, r) == Cardinality({i \in DOMAIN table : table[i].run = r})

\* How often an invocation has made the outbound call named c.
TimesCalled(p, c) == Cardinality({i \in DOMAIN calls[p] : calls[p][i] = c})

\* The invocation of p has written nothing: no account, no row, no update.
WroteNothing(p) ==
  /\ \A c \in {"auth.createUser", "subscriptions.update", "profiles.update",
               "transactions.insert", "notifications.insert"} : TimesCalled(p, c) = 0
  /\ RowsOf(transactions, run[p]) = 0
  /\ RowsOf(notifications, run[p]) = 0

\* The gateway answered p, and not with success / successful.
GatewayRejected(p) ==
  /\ request[p].method = "GET"
  /\ request[p].tx_ref \notin {NULL, ""}
  /\ verificationResult[p] # NoAnswer
  /\ \/ verificationResult[p].status # "success"
     \/ verificationResult[p].data.status # "successful"

GatewayAccepted(p) ==
  /\ verificationResult[p].status = "success"
  /\ verificationResult[p].data.status = "successful"

C1_State ==
  \A p \in Procs :
    GatewayRejected(p) =>
      /\ Done(p)
      /\ response[p] = ErrorResponse("Payment verification failed")
      /\ calls[p] = <<"gateway.verify">>
      /\ WroteNothing(p)

\* C1: a GET invocation carrying tx_ref whose gateway answer has status other than
\* 'success', or data.status other than 'successful', ends with the failure response
\* "Payment verification failed"; it has made no call but the verification, has
\* inserted no row, and the step that rejects the payment leaves every table and
\* the account service as they were.
C1_RejectedPaymentWritesNothing ==
  /\ []C1_State
  /\ [][\A p \in Procs : (pc[p] = "verify" /\ pc'[p] = "done") => store' = store]_vars

\* A payment the gateway found (status success) but reports as failed was rejected.
C1_Witness ==
  \E p \in Procs :
    /\ GatewayRejected(p) /\ Done(p)
    /\ verificationResult[p].status = "success"
    /\ verificationResult[p].data.status = "failed"

\* The rows matching a reference (rows are never inserted, deleted or re-keyed here).
Matching(txRef) ==
  {s \in DOMAIN subscriptions : subscriptions[s].flutterwave_tx_ref = txRef}

\* The select of p has answered, and not with exactly one row.
LookupFailed(p) ==
  /\ GatewayAccepted(p)
  /\ TimesCalled(p, "subscriptions.select") = 1
  /\ \/ Cardinality(Matching(request[p].tx_ref)) # 1
     \/ lookup[p].error

C2_State ==
  \A p \in Procs :
    LookupFailed(p) =>
      /\ Done(p)
      /\ response[p] = ErrorResponse("Subscription not found")
      /\ calls[p] = <<"gateway.verify", "subscriptions.select">>
      /\ WroteNothing(p)

\* C2: an invocation whose payment was verified but whose lookup by tx_ref finds no
\* row, several rows, or fails, ends with the failure response "Subscription not
\* found"; it provisions no account and writes no subscription, profile,
\* transaction or notification record, and the failing step changes nothing.
C2_MissingSubscriptionWritesNothing ==
  /\ []C2_State
  /\ [][\A p \in Procs :
          (pc[p] = "lookup" /\ LookupFailed(p)') => store' = store]_vars

\* Two rows carry the reference and the lookup was refused.
C2_Witness ==
  \E p \in Procs :
    /\ LookupFailed(p) /\ Done(p)
    /\ Cardinality(Matching(request[p].tx_ref)) = 2

C3_State ==
  \A p \in Procs :
    errors[p].subscription =>
      /\ Done(p)
      /\ response[p] = ErrorResponse("Failed to update subscription")
      /\ calls[p][Len(calls[p])] = "subscriptions.update"
      /\ TimesCalled(p, "profiles.update") = 0
      /\ TimesCalled(p, "transactions.insert") = 0
      /\ TimesCalled(p, "notifications.insert") = 0
      /\ RowsOf(transactions, run[p]) = 0
      /\ RowsOf(notifications, run[p]) = 0
      /\ userId[p] \in accounts

\* C3: when the subscription update fails the invocation ends with the failure
\* response "Failed to update subscription"; the profile update and both inserts
\* are never attempted, the failing step leaves the subscription rows unchanged,
\* and the account the invocation provisioned still exists (accounts are never
\* removed).
C3_FailedUpdateAborts ==
  /\ []C3_State
  /\ [][\A p \in Procs :
          (pc[p] = "update_subscription" /\ errors'[p].subscription) =>
             /\ subscriptions' = subscriptions
             /\ profiles' = profiles
             /\ transactions' = transactions
             /\ notifications' = notifications]_vars
  /\ [][accounts \subseteq accounts']_vars

\* The update failed after the invocation had provisioned an account.
C3_Witness ==
  \E p \in Procs :
    /\ errors[p].subscription /\ Done(p)
    /\ TimesCalled(p, "auth.createUser") = 1
    /\ userId[p] # ExistingUser
    /\ userId[p] \in accounts
    /\ subscriptions["sub1"].status = "pending"

\* The subscription update of p has succeeded.
Activated(p) ==
  /\ TimesCalled(p, "subscriptions.update") = 1
  /\ ~errors[p].subscription

\* C4: once the subscription update has succeeded the invocation can only go on to
\* the profile update, the transaction insert and the notification insert, each
\* attempted in turn whether or not the ones before it failed, and it ends with the
\* success response (status 200, success true) whatever subset of the three failed.
C4_BestEffortWritesNeverFail ==
  \A p \in Procs :
    Activated(p) =>
      /\ pc[p] \in {"update_profile", "insert_transaction", "insert_notification",
                    "done"}
      /\ pc[p] = "insert_transaction" => TimesCalled(p, "profiles.update") = 1
      /\ pc[p] = "insert_notification" =>
           /\ TimesCalled(p, "profiles.update") = 1
           /\ TimesCalled(p, "transactions.insert") = 1
      /\ Done(p) =>
           /\ response[p].success /\ response[p].status = 200
           /\ response[p].subscription_id = subscription(p).id
           /\ SubSeq(calls[p], Len(calls[p]) - 2, Len(calls[p])) =
                <<"profiles.update", "transactions.insert", "notifications.insert">>

\* All three best-effort writes failed and the response is still the success one.
C4_Witness ==
  \E p \in Procs :
    /\ Activated(p) /\ Done(p) /\ response[p].success
    /\ errors[p].profile /\ errors[p].transaction /\ errors[p].notification

Succeeded(p) == Done(p) /\ response[p].success

\* C5 as stated: every invocation that returns the success response has created
\* exactly one transaction row and exactly one notification row (so n successes
\* leave n rows of each).
C5_OneRowPerSuccess ==
  \A p \in Procs :
    Succeeded(p) =>
      /\ RowsOf(transactions, run[p]) = 1
      /\ RowsOf(notifications, run[p]) = 1

\* C5, amended: every invocation that returns the success response has attempted
\* exactly one transaction insert and one notification insert; each attempt adds
\* exactly one row, carrying the invocation's tx_ref or subscription, unless that
\* insert failed, and then it adds none. Rows already stored for the same tx_ref
\* never suppress the insert.
C5_OneAttemptPerSuccess ==
  \A p \in Procs :
    Succeeded(p) =>
      /\ TimesCalled(p, "transactions.insert") = 1
      /\ TimesCalled(p, "notifications.insert") = 1
      /\ RowsOf(transactions, run[p]) = (IF errors[p].transaction THEN 0 ELSE 1)
      /\ RowsOf(notifications, run[p]) = (IF errors[p].notification THEN 0 ELSE 1)
      /\ \A i \in DOMAIN transactions :
           transactions[i].run = run[p] =>
             transactions[i].flutterwave_tx_ref = request[p].tx_ref
      /\ \A i \in DOMAIN notifications :
           notifications[i].run = run[p] =>
             notifications[i].subscription_id = subscription(p).id

\* A second successful invocation for the same reference added a second row to both
\* tables.
C5_Witness ==
  \E p \in Procs :
    /\ Succeeded(p)
    /\ RowsOf(transactions, run[p]) = 1
    /\ RowsOf(notifications, run[p]) = 1
    /\ Cardinality({i \in DOMAIN transactions :
                      transactions[i].flutterwave_tx_ref = request[p].tx_ref}) = 2
    /\ Len(notifications) = 2

\* A request without the tx_ref parameter has been received by p.
WithoutTxRef(p) ==
  /\ pc[p] # "idle"
  /\ request[p].tx_ref = NULL

\* C6 as stated: every request missing tx_ref, whatever its method, is answered
\* with the failure response "Missing transaction reference", before any gateway
\* or datastore call.
C6_EveryRequestWithoutReferenceFails ==
  \A p \in Procs :
    WithoutTxRef(p) =>
      /\ Done(p)
      /\ response[p] = ErrorResponse("Missing transaction reference")
      /\ calls[p] = <<>>

\* A GET request without the tx_ref parameter has been received by p.
MissingTxRef(p) == WithoutTxRef(p) /\ request[p].method = "GET"

C6_State ==
  \A p \in Procs :
    MissingTxRef(p) =>
      /\ Done(p)
      /\ response[p] = ErrorResponse("Missing transaction reference")
      /\ calls[p] = <<>>
      /\ verificationResult[p] = NoAnswer
      /\ lookup[p] = NoLookup
      /\ WroteNothing(p)

\* C6, amended: a GET request without tx_ref is answered with the failure response
\* "Missing transaction reference" in the step that receives it: no gateway call
\* and no datastore call is made, and the tables and accounts are left as they
\* were. (A request of another method is answered by the method gate.)
C6_MissingReferenceFailsAtOnce ==
  /\ []C6_State
  /\ [][\A p \in Procs : (pc[p] = "idle" /\ MissingTxRef(p)') => store' = store]_vars

C6_Witness ==
  \E p \in Procs :
    /\ MissingTxRef(p) /\ Done(p)
    /\ response[p].status = 500
    /\ request[p].transaction_id = "tx1"

HasBody(r) == r.body \notin {"none", "null"}

\* C7 as stated: every response carries the CORS headers, and every response with
\* a body is JSON with Content-Type application/json.
C7_EveryBodyIsJson ==
  \A p \in Procs :
    Done(p) =>
      /\ response[p].cors
      /\ HasBody(response[p]) =>
           /\ response[p].body = "json"
           /\ response[p].contentType = "application/json"

\* C7, amended: every response carries the CORS headers; the success response and
\* the failure response are JSON with Content-Type application/json; the preflight
\* response has no body; the method-not-allowed response has the plain-text body
\* "Method not allowed" and no JSON content type.
C7_CorsAlwaysJsonButFor405 ==
  \A p \in Procs :
    Done(p) =>
      /\ response[p].cors
      /\ response[p].status \in {200, 405, 500}
      /\ request[p].method = "OPTIONS" =>
           response[p].status = 200 /\ ~HasBody(response[p])
      /\ (response[p].status = 500 \/ response[p].success) =>
           /\ response[p].body = "json"
           /\ response[p].contentType = "application/json"
      /\ response[p].status = 405 <=> request[p].method \notin {"OPTIONS", "GET"}
      /\ response[p].status = 405 =>
           /\ response[p].body = "Method not allowed"
           /\ response[p].contentType # "application/json"

\* The fetch threw and the catch block still answered with CORS headers and JSON.
C7_Witness ==
  \E p \in Procs :
    /\ Done(p)
    /\ response[p] = ErrorResponse("fetch failed")
    /\ response[p].cors

\* The lookup of p has returned the subscription row.
Found(p) == GatewayAccepted(p) /\ subscription(p) # NoSubscription

PendingUserData(p) ==
  IF paymentData(p).meta.present THEN paymentData(p).meta.pending_user_data ELSE NULL

\* C8: with the subscription found, (a) if it has a user reference, that user is
\* the one every later write and the response carry, and provisioning is never
\* called; (b) if it has none and the payment metadata has no pending-account
\* payload, the invocation fails with "No user data found" having written nothing;
\* (c) if it has none and the payload is present, provisioning is called exactly
\* once, as the third call, and when it fails the invocation ends with "Failed to
\* create user account" having written nothing.
C8_UserResolution ==
  \A p \in Procs :
    Found(p) =>
      /\ subscription(p).user_id # NoUser =>
           /\ TimesCalled(p, "auth.createUser") = 0
           /\ pc[p] # "create_user"
           /\ userId[p] = subscription(p).user_id
           /\ Activated(p) =>
                subscriptions[subscription(p).id].user_id = subscription(p).user_id
           /\ \A i \in DOMAIN transactions :
                transactions[i].run = run[p] =>
                  transactions[i].user_id = subscription(p).user_id
           /\ \A i \in DOMAIN notifications :
                notifications[i].run = run[p] =>
                  notifications[i].user_id = subscription(p).user_id
           /\ (TimesCalled(p, "profiles.update") = 1 /\ ~errors[p].profile) =>
                profiles[subscription(p).user_id].subscription_status
                  \in {"trial", "active"}
           /\ Succeeded(p) => response[p].user_id = subscription(p).user_id
      /\ (subscription(p).user_id = NoUser /\ PendingUserData(p) = NULL) =>
           /\ Done(p)
           /\ response[p] = ErrorResponse("No user data found")
           /\ calls[p] = <<"gateway.verify", "subscriptions.select">>
           /\ WroteNothing(p)
      /\ (subscription(p).user_id = NoUser /\ PendingUserData(p) # NULL) =>
           \/ pc[p] = "create_user" /\ TimesCalled(p, "auth.createUser") = 0
           \/ /\ TimesCalled(p, "auth.createUser") = 1
              /\ calls[p][3] = "auth.createUser"
              /\ errors[p].auth =>
                   /\ Done(p)
                   /\ response[p] = ErrorResponse("Failed to create user account")
                   /\ Len(calls[p]) = 3
                   /\ RowsOf(transactions, run[p]) = 0
                   /\ RowsOf(notifications, run[p]) = 0
                   /\ userId[p] = NoUser
              /\ ~errors[p].auth =>
                   /\ userId[p] \in accounts \ {ExistingUser}
                   /\ Succeeded(p) => response[p].user_id = userId[p]

\* An account was provisioned for a subscription without user, and the invocation
\* succeeded with it.
C8_Witness ==
  \E p \in Procs :
    /\ Found(p) /\ Succeeded(p)
    /\ subscription(p).user_id = NoUser
    /\ TimesCalled(p, "auth.createUser") = 1
    /\ response[p].user_id \notin {NoUser, ExistingUser}
    /\ subscriptions[subscription(p).id].user_id = response[p].user_id

\* The fee table as the specification words it: unknown plan types give 0.05.
StatedRate(plan) ==
  CASE plan = "starter" -> 5
    [] plan = "professional" -> 3
    [] plan = "enterprise" -> 1
    [] OTHER -> 5

\* The transaction insert of p succeeded and its row is stored.
Recorded(p) ==
  /\ Activated(p)
  /\ TimesCalled(p, "transactions.insert") = 1
  /\ ~errors[p].transaction

\* The payment of p does not set the trial flag.
NoTrialFlag(p) ==
  ~(paymentData(p).meta.present /\ paymentData(p).meta.is_trial = "true")

\* The plan type the payment metadata names, if it names one.
MetaPlan(p) ==
  IF paymentData(p).meta.present /\ paymentData(p).meta.plan_type \notin {NULL, ""}
  THEN paymentData(p).meta.plan_type
  ELSE NULL

EffectivePlan(p) ==
  IF MetaPlan(p) # NULL THEN MetaPlan(p) ELSE subscription(p).plan_type

C10_State ==
  \A s \in DOMAIN subscriptions :
    subscriptions[s].status = "active" => subscriptions[s].user_id # NoUser

\* C10: with invocations for the same tx_ref interleaved, a subscription whose
\* status is active always has a user reference, and a subscription's status
\* changes only in the update step of an invocation whose own gateway verification
\* succeeded, for the row that invocation looked up, and only to active.
C10_ActiveHasUserAndVerified ==
  /\ []C10_State
  /\ [][\A s \in DOMAIN subscriptions :
          subscriptions'[s].status # subscriptions[s].status =>
            \E p \in Procs :
              /\ pc[p] = "update_subscription" /\ pc'[p] = "update_profile"
              /\ GatewayAccepted(p)
              /\ calls[p][1] = "gateway.verify"
              /\ subscription(p).id = subscriptions[s].id
              /\ subscriptions'[s].status = "active"
              /\ subscriptions'[s].user_id = userId[p]]_vars

\* Both instances read the pending row before either activated it; each provisioned
\* an account; one has activated the row and the other is about to overwrite it.
C10_Witness ==
  \E p, q \in Procs :
    /\ p # q
    /\ pc[p] = "update_profile" /\ pc[q] = "update_subscription"
    /\ subscription(p).status = "pending" /\ subscription(q).status = "pending"
    /\ subscriptions["sub1"].status = "active"
    /\ subscriptions["sub1"].user_id = userId[p]
    /\ userId[q] \notin {NoUser, userId[p]}

====
